---- MODULE Spec2Model ----
(***************************************************************************)
(* State-machine model of the cleverdog camera tools:                      *)
(*   - FrameProxy   : process() of src/bin/rtpproxy.rs                     *)
(*   - Relay        : the writer thread and the sink closure of            *)
(*                    src/bin/stream.rs and examples/cleverdog.rs          *)
(*   - StreamSession: stream() and send_rtcp() of src/lib.rs               *)
(* Each component has its own specification (SpecProxy, SpecRelay,         *)
(* SpecStream); the variables of the other components stay at their        *)
(* initial values.                                                         *)
(***************************************************************************)
EXTENDS Integers, Sequences, FiniteSets, TLC

(***************************************************************************)
(* Bounds of the model.                                                    *)
(***************************************************************************)
\* size of the proxy's receive buffer; the source has [0; 8192], the model
\* scales it down so that a frame can straddle and fill the buffer and a
\* remainder can be longer than the consumed part before it
BufSize == 5
\* longest payload of an envelope in the proxied stream
MaxPayload == 1
\* number of values in the proxied stream
MaxFrames == 2
\* capacity of the relay queue; the source has sync_channel(4096)
QueueCap == 2
\* number of payloads the capture session hands to the relay sink
MaxSink == 6
\* number of connection attempts of the relay writer the model follows
MaxAttempts == 3
\* number of envelopes the BufWriter of examples/cleverdog.rs holds before it
\* flushes; the source has the default capacity of 8192 bytes
BufWriterCap == 2
\* clock ticks per second
TicksPerSec == 2
\* the clock stops at MaxTime ticks
MaxTime == 5
\* number of datagrams the session receives
MaxDgrams == 3
\* length of the session's receive buffer; the source has [0; 4096]
SBufLen == 18

\* largest --retries value explored
MaxRetries == 2

\* connections the peers may open to the listener
MaxConns == 2

\* frames a peer may send on one connection
MaxPending == 2

\* failed accepts explored
MaxAcceptErrs == 1

\* longest cid handed to create_command
MaxCid == 17

\* datagrams lookup() may receive
MaxLookupDgrams == 2

\* length of lookup()'s receive buffer (4096 in the source)
LBufLen == 24

\* most colon-separated components in a string handed to MacAddr::from_str
MaxComps == 7

VARIABLES
  \* ---- FrameProxy, process() ----
  frames,      \* the values the peer sends, in order (model input)
  tcp,         \* bytes of the TCP stream not yet read
  buf,         \* buf: [u8; 8192]
  rx_offset,   \* consumed offset
  rd_offset,   \* write offset
  sent,        \* arguments of the sock.send_to calls, in order
  bytewise,    \* history: every read so far returned at most one byte
  lastCopy,    \* the core::ptr::copy call of the latest pass, if it made one
  pstate       \* "reading" | "eof" (Ok(())) | "unexpected" | "ioerr";
               \* "accept" while the listener has no connection yet

  ,
  \* ---- Relay: sink closure and writer thread ----
  variant,     \* "stream_rs" (src/bin/stream.rs) | "cleverdog_rs" (examples/cleverdog.rs)
  queue,       \* contents of mpsc::sync_channel(4096), oldest first
  nextId,      \* number of sink invocations so far; payloads are numbered 1, 2, ...
  lastSink,    \* what the latest sink invocation did and returned
  wpc,         \* writer thread: "connect" | "backoff" | "recv" | "write" | "sleep" | "exited"
  cur,         \* buf: the entry rx.recv() returned (0: none)
  conn,        \* number of connections established; the current one is conn
  attempts,    \* number of connection attempts so far
  wbuf,        \* entries held by the BufWriter of examples/cleverdog.rs
  wire,        \* envelopes put on the transport, in order: [conn, id, whole]
  failed,      \* history: [conn, id] of every write_all that returned Err
  dropped      \* history: ids the sink did not enqueue
  ,
  \* ---- StreamSession: stream() of src/lib.rs ----
  now,         \* the monotonic clock (Instant::now()), in ticks
  timestamp,   \* timestamp: Instant of the last keep-alive (or of the start)
  sbuf,        \* buf: [u8; 4096]
  sstatus,     \* "running" | "rtcp_err" | "sink_err" (Err returned) | "recv_panic"
  nrecv,       \* number of datagrams received so far
  rtcpCount,   \* number of send_rtcp calls so far
  lastRtcp,    \* destination and time of the latest send_rtcp call
  sinkLog,     \* payloads forwarded (sock.send_to(&buf[4..size], dst)), in order
  lastIter     \* history: what the latest loop iteration received and did

proxyVars == <<frames, tcp, buf, rx_offset, rd_offset, sent, bytewise, lastCopy, pstate>>

relayVars == <<variant, queue, nextId, lastSink, wpc, cur, conn, attempts, wbuf, wire,
               failed, dropped>>

streamVars == <<now, timestamp, sbuf, sstatus, nrecv, rtcpCount, lastRtcp, sinkLog, lastIter>>

\* the stream subcommand of examples/cleverdog.rs (main)
VARIABLES
  mkind,      \* destination kind of --addr: "udp" or "https"
  retries,    \* the value of --retries
  num,        \* the loop counter num
  started,    \* number of calls of cleverdog::stream so far
  mpc,        \* where main is: "start", "session", "sleep", "join",
              \* "exit_err" (main returned Err), "aborted" (panic)
  sleepFrom,  \* time at which the current thread::sleep began
  ended,      \* how the sessions so far ended, in order
  hostOk,     \* whether the host of --addr is a DNS name (line 146)
  wthread     \* the writer thread: "none" (udp), "running", "panicked"

mainVars == <<mkind, retries, num, started, mpc, sleepFrom, ended, hostOk, wthread>>

\* main of src/bin/rtpproxy.rs: the listener and the connections made to it
VARIABLES
  cst,         \* per connection: "none", "backlog" (established, not yet
               \* returned by incoming()), "serving" (inside process()),
               \* "done_ok", "done_err" (process() returned Ok / Err)
  backlog,     \* established connections waiting to be accepted, oldest first
  serving,     \* the connection process() is running on, 0 when main is
               \* in listener.incoming()
  pend,        \* per connection: frames sent by the peer and not yet read
  closed,      \* per connection: the peer has closed its end
  emitted,     \* per connection: frames re-emitted
  acceptErrs   \* failed accepts so far

listenVars == <<cst, backlog, serving, pend, closed, emitted, acceptErrs>>

\* one call of create_command (src/lib.rs)
VARIABLES
  ccmd,    \* the command: "Scan", "ScanReply" or "StartRtp"
  ccid,    \* the cid argument
  cargs,   \* the args argument
  cout     \* the result, [res |-> "none"] before the call

codecVars == <<ccmd, ccid, cargs, cout>>

\* lookup() and the session-start command of stream() (src/lib.rs)
VARIABLES
  lstate,    \* "waiting" (blocked in recv_from), "ok", "err"
  lerr,      \* the error returned, "" if none
  handle,    \* the LookupInfo returned, [addr |-> "none", ..] before
  lrecv,     \* datagrams received so far
  lastRx,    \* the last datagram received and its source address
  lbuf,      \* the receive buffer
  startCmd   \* the StartRtp command sent by stream(), <<>> before

lookupVars == <<lstate, lerr, handle, lrecv, lastRx, lbuf, startCmd>>

\* one use of MacAddr (src/mac.rs): a value formatted, a string parsed
VARIABLES
  mmac,    \* the MacAddr to format, <<>> if the string is given directly
  mstr,    \* the string, a sequence of characters; <<"?">> before formatting
  mres     \* the result of from_str, [res |-> "none"] before the call

macVars == <<mmac, mstr, mres>>

\* the relay writer's connections as the proxy sees them
VARIABLES
  pconn,   \* the connection process() is running on (0: none accepted yet)
  taken    \* how many entries of wire have been delivered or lost

linkVars == <<pconn, taken>>

restVars == <<mainVars, listenVars, codecVars, lookupVars, macVars, linkVars>>

vars == <<proxyVars, relayVars, streamVars, restVars>>

Min(a, b) == IF a < b THEN a ELSE b

(***************************************************************************)
(* The envelope: a MessagePack value.  Markers are the bytes of the        *)
(* MessagePack format that rmpv reads and writes.                          *)
(***************************************************************************)
\* bytes a payload is made of: 1 is also a valid length byte and a fixint,
\* 196 is also the bin8 marker
PayloadBytes == {1, 196}

RECURSIVE SeqsUpTo(_, _)
SeqsUpTo(S, n) ==
  IF n = 0 THEN {<<>>}
  ELSE LET shorter == SeqsUpTo(S, n - 1)
       IN shorter \cup {Append(s, x) : s \in {t \in shorter : Len(t) = n - 1}, x \in S}

Payloads == SeqsUpTo(PayloadBytes, MaxPayload)

\* rmpv::encode::write_value(&mut msg, &Value::Binary(..)): the length prefix
\* is the shortest that holds the length (bin8 < 256 <= bin16 < 65536 <= bin32)
EncodeBin(p) ==
  IF Len(p) < 256 THEN <<196, Len(p)>> \o p
  ELSE IF Len(p) < 65536 THEN <<197, Len(p) \div 256, Len(p) % 256>> \o p
  ELSE <<198, Len(p) \div 16777216, (Len(p) \div 65536) % 256,
         (Len(p) \div 256) % 256, Len(p) % 256>> \o p

\* a binary string with the medium length prefix (valid on the wire, "decoders
\* must handle all three lengths")
EncodeBin16(p) == <<197, Len(p) \div 256, Len(p) % 256>> \o p

\* a value of the stream: a binary string in either prefix width, nil, or a
\* binary string whose envelope is longer than the buffer
Values ==
  [kind : {"bin8", "bin16"}, payload : Payloads]
    \cup {[kind |-> "nil", payload |-> <<>>]}
    \cup {[kind |-> "bin16", payload |-> [i \in 1..BufSize |-> 1]]}

Wire(v) ==
  CASE v.kind = "bin8" -> EncodeBin(v.payload)
    [] v.kind = "bin16" -> EncodeBin16(v.payload)
    [] OTHER -> <<192>>

RECURSIVE Flatten(_)
Flatten(ss) == IF ss = <<>> THEN <<>> ELSE Head(ss) \o Flatten(Tail(ss))

\* mutation of ReadValueRef: a bin8 string whose payload is cut short is
\* returned as if it were whole
ReadValueRefEager(s) ==
  IF Len(s) = 0 THEN [res |-> "eof", payload |-> <<>>, pos |-> 0]
  ELSE IF s[1] = 196 /\ Len(s) >= 2
  THEN [res |-> "bin", payload |-> SubSeq(s, 3, Min(Len(s), 2 + s[2])), pos |-> 2 + s[2]]
  ELSE IF s[1] \in {196, 197, 198}
  THEN [res |-> "eof", payload |-> <<>>, pos |-> 0]
  ELSE [res |-> "other", payload |-> <<>>, pos |-> 1]

\* rmpv::decode::read_value_ref on the slice s: the decoded value and the
\* cursor position after it, or the error
ReadValueRef(s) ==
  IF Len(s) = 0 THEN [res |-> "eof", payload |-> <<>>, pos |-> 0]
  ELSE LET m == s[1] IN
    CASE m = 196 ->
           IF Len(s) < 2 \/ Len(s) < 2 + s[2]
           THEN [res |-> "eof", payload |-> <<>>, pos |-> 0]
           ELSE [res |-> "bin", payload |-> SubSeq(s, 3, 2 + s[2]), pos |-> 2 + s[2]]
      [] m = 197 ->
           IF Len(s) < 3 \/ Len(s) < 3 + s[2] * 256 + s[3]
           THEN [res |-> "eof", payload |-> <<>>, pos |-> 0]
           ELSE LET n == s[2] * 256 + s[3]
                IN [res |-> "bin", payload |-> SubSeq(s, 4, 3 + n), pos |-> 3 + n]
      [] m = 198 ->
           IF Len(s) < 5
              \/ Len(s) < 5 + ((s[2] * 256 + s[3]) * 256 + s[4]) * 256 + s[5]
           THEN [res |-> "eof", payload |-> <<>>, pos |-> 0]
           ELSE LET n == ((s[2] * 256 + s[3]) * 256 + s[4]) * 256 + s[5]
                IN [res |-> "bin", payload |-> SubSeq(s, 6, 5 + n), pos |-> 5 + n]
      \* nil, bool, fixint: a complete one-byte value that is not a binary string
      [] OTHER -> [res |-> "other", payload |-> <<>>, pos |-> 1]

\* mutation of DecodeLoop: a value that is not a binary string is skipped and
\* decoding goes on
RECURSIVE DecodeLoopSkip(_, _, _, _)
DecodeLoopSkip(b, rx, rd, out) ==
  LET v == ReadValueRef(SubSeq(b, rx + 1, rd)) IN
    CASE v.res = "bin" -> DecodeLoopSkip(b, rx + v.pos, rd, Append(out, v.payload))
      [] v.res = "other" -> DecodeLoopSkip(b, rx + v.pos, rd, out)
      [] OTHER -> [rx |-> rx, out |-> out, res |-> "break"]

\* lines 34-56: the inner decode loop over buf[rx_offset..rd_offset]; every
\* binary string is handed to sock.send_to (whose failure is only logged) and
\* rx_offset advances by the cursor position
RECURSIVE DecodeLoop(_, _, _, _)
DecodeLoop(b, rx, rd, out) ==
  LET v == ReadValueRef(SubSeq(b, rx + 1, rd)) IN
    CASE v.res = "bin" -> DecodeLoop(b, rx + v.pos, rd, Append(out, v.payload))
      [] v.res = "other" -> [rx |-> rx, out |-> out, res |-> "unexpected"]
      [] OTHER -> [rx |-> rx, out |-> out, res |-> "break"]

\* mutation of PtrCopy: the bytes are copied one at a time from the last to
\* the first, each read seeing the writes made before it
RECURSIVE PtrCopyBackward(_, _, _, _)
PtrCopyBackward(b, src, dst, count) ==
  IF count <= 0 THEN b
  ELSE PtrCopyBackward([b EXCEPT ![dst + count] = b[src + count]], src, dst, count - 1)

\* core::ptr::copy(src, dst, count): a memmove, the destination receives the
\* bytes the source range held before the copy
PtrCopy(b, src, dst, count) ==
  [i \in 1..Len(b) |-> IF i > dst /\ i <= dst + count THEN b[src + (i - dst)] ELSE b[i]]

\* mutation of Compact: the offsets are reset but the remainder is not moved
CompactNoMove(b, rx, rd) ==
  LET pending == rd - rx IN
    IF rx # 0
    THEN [buf |-> b, rd |-> pending, rx |-> 0]
    ELSE [buf |-> b, rd |-> rd, rx |-> rx]

\* lines 58-66: compaction of the unconsumed remainder
Compact(b, rx, rd) ==
  LET pending == rd - rx IN
    IF rx # 0
    THEN [buf |-> PtrCopy(b, rx, 0, pending), rd |-> pending, rx |-> 0]
    ELSE [buf |-> b, rd |-> rd, rx |-> rx]

\* the streams the peer may send: up to MaxFrames values
RECURSIVE FrameSeqs(_)
FrameSeqs(n) ==
  IF n = 0 THEN {<<>>}
  ELSE LET shorter == FrameSeqs(n - 1)
       IN shorter \cup {Append(s, v) : s \in {t \in shorter : Len(t) = n - 1}, v \in Values}

\* no call of core::ptr::copy
NoCopy == [done |-> FALSE, src |-> 0, dst |-> 0, count |-> 0]

ProxyStart(fs) ==
  /\ frames = fs
  /\ tcp = Flatten([i \in 1..Len(frames) |-> Wire(frames[i])])
  /\ buf = [i \in 1..BufSize |-> 0]
  /\ rx_offset = 0
  /\ rd_offset = 0
  /\ sent = <<>>
  /\ bytewise = TRUE
  /\ lastCopy = NoCopy
  /\ pstate = "reading"

ProxyInit == \E fs \in FrameSeqs(MaxFrames) : ProxyStart(fs)

\* lines 25, 30-67: stream.read returns Ok(nread), nread > 0: the kernel hands
\* over any non-empty prefix of the bytes in flight that fits buf[rd_offset..]
ProcessRead(nread) ==
  /\ pstate = "reading"
  /\ nread \in 1..Min(Len(tcp), BufSize - rd_offset)
  /\ LET b1 == [i \in 1..BufSize |->
                 IF i > rd_offset /\ i <= rd_offset + nread THEN tcp[i - rd_offset] ELSE buf[i]]
         rd1 == rd_offset + nread
         d == DecodeLoop(b1, rx_offset, rd1, <<>>)
         c == Compact(b1, d.rx, rd1)
     IN /\ sent' = sent \o d.out
        /\ IF d.res = "unexpected"
           THEN /\ pstate' = "unexpected"
                /\ buf' = b1
                /\ rx_offset' = d.rx
                /\ rd_offset' = rd1
                /\ lastCopy' = NoCopy
           ELSE /\ pstate' = "reading"
                /\ buf' = c.buf
                /\ rx_offset' = c.rx
                /\ rd_offset' = c.rd
                /\ lastCopy' = IF d.rx # 0
                               THEN [done |-> TRUE, src |-> d.rx, dst |-> 0, count |-> rd1 - d.rx]
                               ELSE NoCopy
  /\ tcp' = SubSeq(tcp, nread + 1, Len(tcp))
  /\ bytewise' = (bytewise /\ nread = 1)
  /\ UNCHANGED frames

\* lines 25-29: stream.read returns Ok(0): the peer closed after its last
\* byte, or buf[rd_offset..] is the empty slice
ProcessReadZero ==
  /\ pstate = "reading"
  /\ Len(tcp) = 0 \/ rd_offset = BufSize
  /\ pstate' = "eof"
  /\ UNCHANGED <<frames, tcp, buf, rx_offset, rd_offset, sent, bytewise, lastCopy>>

\* lines 68-71: stream.read fails
ProcessReadErr ==
  /\ pstate = "reading"
  /\ pstate' = "ioerr"
  /\ UNCHANGED <<frames, tcp, buf, rx_offset, rd_offset, sent, bytewise, lastCopy>>

ProxyNext ==
  \/ (\E nread \in 1..BufSize : ProcessRead(nread)) /\ UNCHANGED <<relayVars, streamVars, restVars>>
  \/ ProcessReadZero /\ UNCHANGED <<relayVars, streamVars, restVars>>
  \/ ProcessReadErr /\ UNCHANGED <<relayVars, streamVars, restVars>>

(***************************************************************************)
(* FrameProxy claims                                                       *)
(***************************************************************************)
IsPrefix(s, t) == Len(s) <= Len(t) /\ SubSeq(t, 1, Len(s)) = s

\* the stream is a concatenation of binary-string envelopes, each of which
\* fits the buffer
ValidStream ==
  \A i \in 1..Len(frames) :
    frames[i].kind \in {"bin8", "bin16"} /\ Len(Wire(frames[i])) <= BufSize

ExpectedPayloads == [i \in 1..Len(frames) |-> frames[i].payload]

\* C1: for a stream of N binary-string envelopes that each fit the buffer,
\* whatever the sizes of the successive reads, the payloads handed to send_to
\* are at every moment a prefix of the N payloads in stream order (none
\* duplicated or altered), process() never reports a protocol error, and when
\* it returns at the peer's close all N payloads have been emitted.
C1_ReadBoundaryIndependence ==
  ValidStream =>
    /\ IsPrefix(sent, ExpectedPayloads)
    /\ pstate # "unexpected"
    /\ pstate = "eof" => sent = ExpectedPayloads

\* two non-empty payloads delivered over reads of one byte each
C1_Witness ==
  /\ ValidStream
  /\ pstate = "eof"
  /\ bytewise
  /\ Len(frames) >= 2
  /\ \A i \in 1..Len(frames) : Len(frames[i].payload) > 0
  /\ sent = ExpectedPayloads


\* C13: when the unconsumed remainder fills the whole buffer and holds no
\* decodable value, process() ends with a reported failure, not with the Ok
\* of a clean close by the peer; the buffer keeps its size.
C13_OverflowIsError ==
  /\ Len(buf) = BufSize
  /\ (/\ pstate # "reading"
      /\ rx_offset = 0
      /\ rd_offset = BufSize
      /\ ReadValueRef(SubSeq(buf, 1, BufSize)).res = "eof")
     => pstate # "eof"

\* index of the first value of the stream that is not a binary string, 0 if
\* there is none
FirstNonBinary ==
  IF \E i \in 1..Len(frames) : frames[i].kind = "nil"
  THEN CHOOSE i \in 1..Len(frames) :
         /\ frames[i].kind = "nil"
         /\ \A j \in 1..(i - 1) : frames[j].kind # "nil"
  ELSE 0

\* C14: when the stream holds a complete value that is not a binary string
\* (after envelopes that each fit the buffer), the payloads handed to
\* send_to are at every moment a prefix of the payloads that precede that
\* value, so nothing that follows it is emitted; process() never returns
\* the Ok of a clean close; and when it returns "unexpected frame" every
\* preceding payload has been emitted.
C14_ProtocolViolation ==
  LET k == FirstNonBinary
      before == [i \in 1..(k - 1) |-> frames[i].payload]
  IN (k > 0 /\ \A i \in 1..(k - 1) : Len(Wire(frames[i])) <= BufSize) =>
       /\ IsPrefix(sent, before)
       /\ pstate # "eof"
       /\ pstate = "unexpected" => sent = before

\* a binary string with a payload, then nil: the payload was emitted and the
\* connection ended on the nil
C14_Witness ==
  /\ Len(frames) = 2
  /\ frames[1].kind = "bin8" /\ Len(frames[1].payload) > 0
  /\ frames[2].kind = "nil"
  /\ pstate = "unexpected"
  /\ sent = <<frames[1].payload>>

\* every byte of the stream, and how many of them the connection has
\* handed over and the decoder has consumed
AllBytes == Flatten([i \in 1..Len(frames) |-> Wire(frames[i])])

ReceivedBytes == Len(AllBytes) - Len(tcp)

ConsumedBytes == Len(Flatten([i \in 1..Len(sent) |-> Wire(frames[i])]))

\* C22: whenever a read is about to be issued, rx_offset is 0 and
\* buf[0..rd_offset) holds exactly the bytes received so far that no
\* decoded frame has consumed, in stream order (also after a compaction
\* whose source and destination ranges overlap); and the payloads emitted
\* are the payloads of the frames consumed, so a frame completed by a later
\* read decodes to its own payload.
C22_Compaction ==
  /\ pstate = "reading" =>
       /\ rx_offset = 0
       /\ rd_offset = ReceivedBytes - ConsumedBytes
       /\ SubSeq(buf, 1, rd_offset) = SubSeq(AllBytes, ConsumedBytes + 1, ReceivedBytes)
  /\ \A i \in 1..Len(sent) : sent[i] = frames[i].payload

\* the latest pass moved a remainder longer than the consumed part before
\* it (the ranges of the copy overlap), and a read is about to be issued
C22_Witness ==
  /\ pstate = "reading"
  /\ lastCopy.done
  /\ lastCopy.count > lastCopy.src
  /\ rd_offset = lastCopy.count
  /\ Len(sent) > 0

\* C23: in every state of process(), 0 <= rx_offset <= rd_offset <= the
\* buffer size, so rd_offset - rx_offset does not underflow; and every
\* compaction copy reads [src, src + count) and writes [0, count), with
\* count >= 0 and both ranges inside the buffer.
C23_OffsetSafety ==
  /\ 0 <= rx_offset /\ rx_offset <= rd_offset /\ rd_offset <= BufSize
  /\ Len(buf) = BufSize
  /\ lastCopy.done =>
       /\ lastCopy.count >= 0
       /\ lastCopy.src > 0 /\ lastCopy.src + lastCopy.count <= BufSize
       /\ lastCopy.dst = 0 /\ lastCopy.dst + lastCopy.count <= BufSize
       /\ rd_offset = lastCopy.count /\ rx_offset = 0

\* a copy was made that moved a remainder from the end of a full buffer
C23_Witness ==
  /\ lastCopy.done
  /\ lastCopy.count > 0
  /\ lastCopy.src + lastCopy.count = BufSize

(***************************************************************************)
(* Relay: the sink closure (producer) and the writer thread (consumer) of  *)
(* src/bin/stream.rs and examples/cleverdog.rs.  A payload is identified   *)
(* by the number of the sink invocation that carried it.                   *)
(***************************************************************************)
Variants == {"stream_rs", "cleverdog_rs"}

RelayStart(v) ==
  /\ variant = v
  /\ queue = <<>>
  /\ nextId = 0
  /\ lastSink = [id |-> 0, outcome |-> "none", ret |-> "Ok", queueAt |-> <<>>]
  /\ wpc = "connect"
  /\ cur = 0
  /\ conn = 0
  /\ attempts = 0
  /\ wbuf = <<>>
  /\ wire = <<>>
  /\ failed = {}
  /\ dropped = {}

RelayInit == \E v \in Variants : RelayStart(v)

\* mutation of TrySend: the channel has no bound
TrySendNoBound(q, pc) ==
  IF pc = "exited" THEN "disconnected" ELSE "queued"

\* tx.try_send(msg) on the bounded channel: Err(Disconnected) once the writer
\* thread has returned and dropped rx, Err(Full) when the buffer holds its
\* capacity, Ok otherwise; it never blocks
TrySend(q, pc) ==
  IF pc = "exited" THEN "disconnected"
  ELSE IF Len(q) >= QueueCap THEN "full"
  ELSE "queued"

\* mutation of SinkReturn: a disconnected channel is reported to the session
SinkReturnErrOnDisconnect(outcome) == IF outcome = "disconnected" THEN "Err" ELSE "Ok"

\* the value the sink closure returns to stream(): Ok(()) on every path
SinkReturn(outcome) == "Ok"

\* stream.rs 97-108, cleverdog.rs 176-189: the sink closure
OnData ==
  /\ nextId < MaxSink
  /\ LET id == nextId + 1
         outcome == TrySend(queue, wpc)
     IN /\ nextId' = id
        /\ queue' = IF outcome = "queued" THEN Append(queue, id) ELSE queue
        /\ dropped' = IF outcome = "queued" THEN dropped ELSE dropped \cup {id}
        /\ lastSink' = [id |-> id, outcome |-> outcome, ret |-> SinkReturn(outcome),
                        queueAt |-> queue]
  /\ UNCHANGED <<variant, wpc, cur, conn, attempts, wbuf, wire, failed>>

\* where the writer thread goes when a connection attempt fails:
\* stream.rs 68-81 breaks out of the loop (the thread returns),
\* cleverdog.rs 152-159 sleeps and continues
AfterConnectFailure(v) == IF v = "stream_rs" THEN "exited" ELSE "backoff"

\* stream.rs 66-84, cleverdog.rs 149-163: one connection attempt
Connect(ok) ==
  /\ wpc = "connect"
  /\ attempts < MaxAttempts
  /\ attempts' = attempts + 1
  /\ IF ok
     THEN /\ conn' = conn + 1
          /\ wpc' = "recv"
     ELSE /\ conn' = conn
          /\ wpc' = AfterConnectFailure(variant)
  /\ UNCHANGED <<variant, queue, nextId, lastSink, cur, wbuf, wire, failed, dropped>>

\* cleverdog.rs 156-157: thread::sleep(1 s); continue
BackoffDone ==
  /\ wpc = "backoff"
  /\ wpc' = "connect"
  /\ UNCHANGED <<variant, queue, nextId, lastSink, cur, conn, attempts, wbuf, wire,
                 failed, dropped>>

\* mutation of Recv: the newest entry is taken first
RecvNewest ==
  /\ wpc = "recv"
  /\ queue # <<>>
  /\ cur' = queue[Len(queue)]
  /\ queue' = SubSeq(queue, 1, Len(queue) - 1)
  /\ wpc' = "write"
  /\ UNCHANGED <<variant, nextId, lastSink, conn, attempts, wbuf, wire, failed, dropped>>

\* stream.rs 86, cleverdog.rs 165: rx.recv() returns the oldest entry; it
\* blocks while the queue is empty (tx is alive for the life of the thread)
Recv ==
  /\ wpc = "recv"
  /\ queue # <<>>
  /\ cur' = Head(queue)
  /\ queue' = Tail(queue)
  /\ wpc' = "write"
  /\ UNCHANGED <<variant, nextId, lastSink, conn, attempts, wbuf, wire, failed, dropped>>

Whole(c, ids) == [i \in 1..Len(ids) |-> [conn |-> c, id |-> ids[i], whole |-> TRUE]]

\* what a failing write leaves on the transport: nothing of the entry, or a
\* truncated part of it
Partial(c, id, some) ==
  IF some THEN <<[conn |-> c, id |-> id, whole |-> FALSE]>> ELSE <<>>

\* mutation of AfterWriteFailure: the loop goes on with the same connection
AfterWriteFailureNoBreak == "recv"

\* where the writer thread goes after write_all returned Err: break out of the
\* while-let, then thread::sleep(1 s)
AfterWriteFailure == "sleep"

\* stream.rs 87-90: stream.write_all(&buf) on the TLS stream
WriteDirect(ok, some) ==
  /\ variant = "stream_rs"
  /\ wpc = "write"
  /\ IF ok
     THEN /\ wire' = wire \o Whole(conn, <<cur>>)
          /\ wpc' = "recv"
          /\ failed' = failed
     ELSE /\ wire' = wire \o Partial(conn, cur, some)
          /\ wpc' = AfterWriteFailure
          /\ failed' = failed \cup {[conn |-> conn, id |-> cur]}
  /\ cur' = 0
  /\ UNCHANGED <<variant, queue, nextId, lastSink, conn, attempts, wbuf, dropped>>

\* cleverdog.rs 161, 166-169: stream.write_all(&buf) on the BufWriter.  An
\* entry that fits is only appended to the BufWriter; when it does not fit the
\* BufWriter first flushes what it holds, k entries of which reach the
\* transport before the flush fails (k = Len(wbuf): the flush succeeds)
WriteBuffered(k, some) ==
  /\ variant = "cleverdog_rs"
  /\ wpc = "write"
  /\ IF Len(wbuf) + 1 > BufWriterCap
     THEN /\ k \in 0..Len(wbuf)
          /\ IF k = Len(wbuf)
             THEN /\ ~some
                  /\ wire' = wire \o Whole(conn, wbuf)
                  /\ wbuf' = <<cur>>
                  /\ wpc' = "recv"
                  /\ failed' = failed
             ELSE /\ wire' = wire \o Whole(conn, SubSeq(wbuf, 1, k))
                             \o Partial(conn, wbuf[k + 1], some)
                  /\ wbuf' = SubSeq(wbuf, k + 1, Len(wbuf))
                  /\ wpc' = AfterWriteFailure
                  /\ failed' = failed \cup {[conn |-> conn, id |-> cur]}
     ELSE /\ k = 0 /\ ~some
          /\ wire' = wire
          /\ wbuf' = Append(wbuf, cur)
          /\ wpc' = "recv"
          /\ failed' = failed
  /\ cur' = 0
  /\ UNCHANGED <<variant, queue, nextId, lastSink, conn, attempts, dropped>>

\* stream.rs 93, cleverdog.rs 172: thread::sleep(1 s), then the loop starts
\* over.  The stream of the abandoned connection is dropped here; the
\* BufWriter's drop tries to flush what it still holds to that connection,
\* which has just failed a write: nothing more reaches the transport.
Wake ==
  /\ wpc = "sleep"
  /\ wpc' = "connect"
  /\ wbuf' = <<>>
  /\ UNCHANGED <<variant, queue, nextId, lastSink, cur, conn, attempts, wire, failed,
                 dropped>>

RelayNext ==
  \/ OnData /\ UNCHANGED <<proxyVars, streamVars, restVars>>
  \/ (\E ok \in BOOLEAN : Connect(ok)) /\ UNCHANGED <<proxyVars, streamVars, restVars>>
  \/ BackoffDone /\ UNCHANGED <<proxyVars, streamVars, restVars>>
  \/ Recv /\ UNCHANGED <<proxyVars, streamVars, restVars>>
  \/ (\E ok \in BOOLEAN, some \in BOOLEAN : WriteDirect(ok, some)) /\ UNCHANGED <<proxyVars, streamVars, restVars>>
  \/ (\E k \in 0..BufWriterCap, some \in BOOLEAN : WriteBuffered(k, some))
       /\ UNCHANGED <<proxyVars, streamVars, restVars>>
  \/ Wake /\ UNCHANGED <<proxyVars, streamVars, restVars>>

(***************************************************************************)
(* Relay claims                                                            *)
(***************************************************************************)
Range(f) == {f[i] : i \in DOMAIN f}

OnConn(w, c) == SelectSeq(w, LAMBDA r : r.conn = c)

\* C2: over all successive connections the envelopes put on the transport
\* are in enqueue order and none appears twice (payload ids are assigned in
\* the order of the sink invocations, so the ids on the wire strictly
\* increase); connections are used one after another; nothing the sink
\* dropped is ever written.
C2_RelayOrder ==
  /\ \A i, j \in 1..Len(wire) :
        i < j => wire[i].id < wire[j].id /\ wire[i].conn <= wire[j].conn
  /\ \A i \in 1..Len(wire) : wire[i].id \notin dropped

\* envelopes written on two connections, with a failed write in between
C2_Witness ==
  /\ failed # {}
  /\ \E i, j \in 1..Len(wire) :
        /\ wire[i].whole /\ wire[j].whole
        /\ wire[i].conn < wire[j].conn
        /\ \E f \in failed : wire[i].id < f.id /\ f.id < wire[j].id

\* C3: a sink invocation that finds the queue at its capacity (writer alive)
\* completes in that one step without waiting for the writer: the payload is
\* dropped with outcome "full", the queue and the writer are untouched, and
\* the sink returns Ok, so the session goes on; the sink is never blocked by
\* a full queue.
C3_Backpressure ==
  /\ [][(Len(queue) >= QueueCap /\ wpc # "exited" /\ nextId' = nextId + 1) =>
          /\ queue' = queue
          /\ lastSink'.outcome = "full"
          /\ lastSink'.ret = "Ok"
          /\ nextId' \in dropped'
          /\ <<wpc, cur, conn, wbuf, wire>>' = <<wpc, cur, conn, wbuf, wire>>]_vars
  /\ []((Len(queue) >= QueueCap /\ nextId < MaxSink) => ENABLED OnData)

\* after a drop on a full queue the writer holds an entry that was queued
\* when the drop happened
C3_Witness ==
  /\ lastSink.outcome = "full"
  /\ Len(lastSink.queueAt) = QueueCap
  /\ wpc = "write"
  /\ cur \in Range(lastSink.queueAt)

\* C4: when write_all fails the writer goes to the back-off sleep with the
\* queue untouched; while it sleeps it writes nothing and its next step is a
\* new connection attempt; nothing is ever added to what was written on a
\* connection that has failed a write; the entry whose write failed never
\* appears whole on the transport nor at all on a later connection; and what
\* is written after the failure goes out on a later connection.
C4_WriteFailure ==
  /\ [][failed' # failed =>
          /\ wpc = "write" /\ wpc' = "sleep"
          /\ queue' = queue
          /\ cur' = 0]_vars
  /\ [][wpc = "sleep" =>
          /\ wpc' \in {"sleep", "connect"}
          /\ wire' = wire /\ conn' = conn /\ cur' = cur]_vars
  /\ [][\A f \in failed : OnConn(wire', f.conn) = OnConn(wire, f.conn)]_vars
  /\ [](\A f \in failed : \A i \in 1..Len(wire) :
          /\ wire[i].id = f.id => (~wire[i].whole /\ wire[i].conn = f.conn)
          /\ wire[i].id > f.id => wire[i].conn > f.conn)

\* an entry that was behind the failed one is written on a later connection
C4_Witness ==
  \E f \in failed : \E i \in 1..Len(wire) :
    wire[i].id > f.id /\ wire[i].conn > f.conn /\ wire[i].whole

\* C5: whenever a connection attempt fails, the writer backs off and will
\* attempt to connect again (it never gives up), in every relay worker.
C5_ConnectRetry ==
  [][(attempts' = attempts + 1 /\ conn' = conn) => wpc' = "backoff"]_vars

(***************************************************************************)
(* StreamSession: the receive loop of stream() and send_rtcp(), src/lib.rs *)
(***************************************************************************)
\* Duration::from_secs(1)
KeepAliveSecs == 1

\* rtp.rs: Header::version, the top two bits of byte 0
HeaderVersion(h) == h[1] \div 64

\* rtp.rs: Header::ssrc, bytes 8..12 big-endian
HeaderSsrc(h) == ((h[9] * 256 + h[10]) * 256 + h[11]) * 256 + h[12]

\* a camera datagram: 4 bytes of vendor prefix with the frame type at index
\* 2, the 12-byte header (version byte, sequence number 17, timestamp 36000,
\* SSRC), then the rest of the payload
MkDgram(ftype, verbyte, ssrc, rest) ==
  <<0, 0, ftype, 0, verbyte, 96, 0, 17, 0, 0, 140, 160, 0, 0, 0, ssrc>> \o rest

\* the datagrams the socket may deliver
Dgrams ==
  { MkDgram(1, 128, 16, <<>>),                    \* video, version 2, SSRC 16
    MkDgram(1, 128, 16, <<7, 9>>),                \* the same with two more bytes
    MkDgram(0, 128, 16, <<7>>),                   \* not a video frame
    MkDgram(1, 64, 16, <<>>),                     \* header version 1
    MkDgram(1, 128, 17, <<>>),                    \* another SSRC
    SubSeq(MkDgram(1, 128, 16, <<>>), 1, 15),     \* one byte short
    <<0, 0>> }                                    \* two bytes

Addrs == {"camera", "other"}

StreamStart ==
  /\ now = 0
  /\ timestamp = 0
  /\ sbuf = [i \in 1..SBufLen |-> 0]
  /\ sstatus = "running"
  /\ nrecv = 0
  /\ rtcpCount = 0
  /\ lastRtcp = [to |-> "none", at |-> 0]
  /\ sinkLog = <<>>
  /\ lastIter = [d |-> <<>>, addr |-> "none", events |-> <<>>]

\* time passes
Tick ==
  /\ now < MaxTime
  /\ now' = now + 1
  /\ UNCHANGED <<timestamp, sbuf, sstatus, nrecv, rtcpCount, lastRtcp, sinkLog, lastIter>>

\* mutations of KeepAliveDue: a strict comparison; no comparison at all
KeepAliveDueStrict(elapsed) == elapsed > KeepAliveSecs * TicksPerSec

KeepAliveDueAlways(elapsed) == elapsed >= 0

\* line 161: timestamp.elapsed() >= Duration::from_secs(1)
KeepAliveDue(elapsed) == elapsed >= KeepAliveSecs * TicksPerSec

\* mutation of Discarded: the size check is missing
DiscardedNoSize(b, size) == b[3] # 1

\* lines 166-173: the two discards, buf[..size].len() < 16 and buf[2] != 1
Discarded(b, size) == size < 16 \/ b[3] # 1

\* mutation of AfterDiscard: a discard returns an error instead of continuing
AfterDiscardReturn == "sink_err"

\* lines 167, 172: continue
AfterDiscard == "running"

\* lines 159-175: one iteration of the loop on the datagram d from addr;
\* rtcpOk and sinkOk are the results of the two sends
RecvDatagram(d, addr, rtcpOk, sinkOk) ==
  /\ sstatus = "running"
  /\ nrecv < MaxDgrams
  /\ Len(d) <= SBufLen
  /\ nrecv' = nrecv + 1
  /\ LET size == Len(d)
         b1 == [i \in 1..SBufLen |-> IF i <= size THEN d[i] ELSE sbuf[i]]
         due == KeepAliveDue(now - timestamp)
     IN /\ sbuf' = b1
        /\ timestamp' = IF due THEN now ELSE timestamp
        /\ rtcpCount' = IF due THEN rtcpCount + 1 ELSE rtcpCount
        /\ lastRtcp' = IF due THEN [to |-> addr, at |-> now] ELSE lastRtcp
        /\ ~due => rtcpOk
        /\ IF due /\ ~rtcpOk
           THEN \* send_rtcp(&sock, &addr)? returns the error
                /\ ~sinkOk
                /\ sstatus' = "rtcp_err"
                /\ sinkLog' = sinkLog
                /\ lastIter' = [d |-> d, addr |-> addr, events |-> <<"rtcp_err">>]
           ELSE IF Discarded(b1, size)
           THEN /\ sinkOk
                /\ sstatus' = AfterDiscard
                /\ sinkLog' = sinkLog
                /\ lastIter' = [d |-> d, addr |-> addr,
                                events |-> (IF due THEN <<"rtcp">> ELSE <<>>) \o <<"discard">>]
           ELSE /\ sinkLog' = Append(sinkLog, SubSeq(b1, 5, size))
                /\ sstatus' = IF sinkOk THEN "running" ELSE "sink_err"
                /\ lastIter' = [d |-> d, addr |-> addr,
                                events |-> (IF due THEN <<"rtcp">> ELSE <<>>)
                                           \o <<IF sinkOk THEN "sink" ELSE "sink_err">>]
  /\ UNCHANGED now

\* line 159: sock.recv_from(..).unwrap() on an error: the thread panics
RecvError ==
  /\ sstatus = "running"
  /\ sstatus' = "recv_panic"
  /\ UNCHANGED <<now, timestamp, sbuf, nrecv, rtcpCount, lastRtcp, sinkLog, lastIter>>

StreamNext ==
  \/ Tick /\ UNCHANGED <<proxyVars, relayVars, restVars>>
  \/ (\E d \in Dgrams, addr \in Addrs, rtcpOk \in BOOLEAN, sinkOk \in BOOLEAN :
        RecvDatagram(d, addr, rtcpOk, sinkOk)) /\ UNCHANGED <<proxyVars, relayVars, restVars>>
  \/ RecvError /\ UNCHANGED <<proxyVars, relayVars, restVars>>

(***************************************************************************)
(* StreamSession claims                                                    *)
(***************************************************************************)
\* a step of the loop that received a datagram
Received == nrecv' = nrecv + 1

\* C6: every payload handed to the sink comes from a datagram whose embedded
\* header (bytes 4..16, the first 12 bytes of the payload) has version 2 and
\* SSRC 16.
C6_HeaderFilter ==
  \A i \in 1..Len(sinkLog) :
    HeaderVersion(sinkLog[i]) = 2 /\ HeaderSsrc(sinkLog[i]) = 16

\* C7: in every iteration that reaches the filter (its keep-alive step, if
\* one was due, did not fail): a datagram shorter than 16 bytes or whose byte
\* at index 2 is not 1 adds nothing to the sink's log and leaves the session
\* running; any other datagram adds exactly one entry at the end of the log,
\* equal to bytes 4..size of that datagram.  An iteration that does not
\* reach the filter invokes no sink.
C7_Forwarding ==
  [][Received =>
       LET d == lastIter'.d IN
         IF lastIter'.events = <<"rtcp_err">>
         THEN sinkLog' = sinkLog
         ELSE IF Len(d) < 16 \/ d[3] # 1
         THEN sinkLog' = sinkLog /\ sstatus' = "running"
         ELSE sinkLog' = Append(sinkLog, SubSeq(d, 5, Len(d)))]_vars

\* a 16-byte video datagram forwarded right after an 18-byte one, then a
\* short datagram discarded: the log holds the two payloads in arrival order
C7_Witness ==
  /\ Len(sinkLog) = 2
  /\ Len(sinkLog[1]) = 14 /\ Len(sinkLog[2]) = 12
  /\ Len(lastIter.d) = 15
  /\ sstatus = "running"

\* C8: on receipt of any datagram, exactly when at least 1 second has elapsed
\* since the last keep-alive (or the start), one keep-alive is sent to the
\* datagram's source address and the timer is reset to the current time, and
\* this is the first thing the iteration does, whether the datagram is then
\* discarded or forwarded; otherwise no keep-alive is sent and the timer is
\* left alone.
C8_KeepAliveFirst ==
  [][Received =>
       IF now - timestamp >= TicksPerSec
       THEN /\ rtcpCount' = rtcpCount + 1
            /\ lastRtcp' = [to |-> lastIter'.addr, at |-> now]
            /\ timestamp' = now
            /\ Head(lastIter'.events) \in {"rtcp", "rtcp_err"}
       ELSE /\ rtcpCount' = rtcpCount
            /\ lastRtcp' = lastRtcp
            /\ timestamp' = timestamp
            /\ \A i \in 1..Len(lastIter'.events) :
                 lastIter'.events[i] \notin {"rtcp", "rtcp_err"}]_vars

\* a keep-alive sent on a datagram that was then discarded as too short
C8_Witness ==
  /\ lastIter.events = <<"rtcp", "discard">>
  /\ Len(lastIter.d) < 16
  /\ lastRtcp = [to |-> lastIter.addr, at |-> now]
  /\ timestamp = now

\* C9 as stated: after T whole seconds of a running session the number of
\* keep-alives sent is T.
C9_OncePerSecond ==
  (sstatus = "running" /\ now % TicksPerSec = 0) => rtcpCount = now \div TicksPerSec

\* C9 as amended: keep-alives are sent only on receipt of a datagram and at
\* least 1 second apart, so after T whole seconds at most T have been sent
\* (fewer when no datagram arrived in some second).
C9_AtMostOncePerSecond ==
  /\ rtcpCount * TicksPerSec <= timestamp
  /\ timestamp <= now

\* two seconds have passed and only one keep-alive was sent
C9_Witness ==
  /\ sstatus = "running"
  /\ rtcpCount = 1
  /\ now >= 2 * TicksPerSec

\* C10 as stated: the loop ends only on a receive error or a sink failure.
C10_OnlyRecvOrSink == sstatus \in {"running", "recv_panic", "sink_err"}

\* C10 as amended: the loop ends only when the receive call errors, when the
\* sink fails, or when sending a keep-alive fails (the last two returned to
\* the caller as Err); a discarded datagram and a keep-alive that was sent
\* never end it.
C10_TerminationCauses ==
  [][(sstatus = "running" /\ sstatus' # "running") =>
       \/ sstatus' = "recv_panic" /\ ~Received
       \/ sstatus' = "sink_err" /\ Received
            /\ lastIter'.events[Len(lastIter'.events)] = "sink_err"
       \/ sstatus' = "rtcp_err" /\ Received /\ lastIter'.events = <<"rtcp_err">>]_vars

\* the session ended because a keep-alive could not be sent
C10_Witness ==
  /\ sstatus = "rtcp_err"
  /\ lastIter.events = <<"rtcp_err">>

\* C11: a receive error ends the session by returning a failure to the
\* caller; it never aborts the process.
C11_RecvErrorReturned == sstatus # "recv_panic"

(***************************************************************************)
(* The stream subcommand: main of examples/cleverdog.rs, lines 112-203     *)
(***************************************************************************)
Kinds == {"udp", "https"}

\* the ways a call of cleverdog::stream ends: with Err from the sink or from
\* the keep-alive, or with the panic of the receive call; it never returns Ok
SessionOutcomes == {"sink_err", "rtcp_err", "recv_panic"}

\* lines 114-146: the arguments are parsed, the camera is resolved and, for an
\* https destination, the writer thread is spawned
MainStart(k, n, h) ==
  /\ mkind = k
  /\ retries = n
  /\ num = n
  /\ started = 0
  /\ mpc = "start"
  /\ sleepFrom = 0
  /\ ended = <<>>
  /\ hostOk = h
  /\ wthread = IF k = "https" THEN "running" ELSE "none"

MainInit == \E k \in Kinds, n \in 0..MaxRetries, h \in BOOLEAN : MainStart(k, n, h)

\* line 131 (udp): the single call of cleverdog::stream, whatever num is;
\* lines 191-192 (https): the call inside `while num > 0`
StartSession ==
  /\ mpc = "start"
  /\ mkind = "udp" \/ num > 0
  /\ mpc' = "session"
  /\ started' = started + 1
  /\ UNCHANGED <<mkind, retries, num, sleepFrom, ended, hostOk, wthread>>

\* line 191: num = 0, the loop is left for thread.join() (line 200)
LoopExit ==
  /\ mpc = "start"
  /\ mkind = "https"
  /\ num = 0
  /\ mpc' = "join"
  /\ UNCHANGED <<mkind, retries, num, started, sleepFrom, ended, hostOk, wthread>>

\* the call of cleverdog::stream ends.  A panic unwinds main; line 135 (udp)
\* returns the Err with `?`; lines 192-197 (https) log it, decrement num and
\* begin the sleep
SessionEnd(outcome) ==
  /\ mpc = "session"
  /\ ended' = Append(ended, outcome)
  /\ IF outcome = "recv_panic"
     THEN mpc' = "aborted" /\ UNCHANGED <<num, sleepFrom>>
     ELSE IF mkind = "udp"
     THEN mpc' = "exit_err" /\ UNCHANGED <<num, sleepFrom>>
     ELSE /\ mpc' = "sleep"
          /\ num' = num - 1
          /\ sleepFrom' = now
  /\ UNCHANGED <<mkind, retries, started, hostOk, wthread>>

\* line 197: thread::sleep(Duration::new(1, 0)) returns, not before a second
\* has passed
SleepDone ==
  /\ mpc = "sleep"
  /\ now - sleepFrom >= TicksPerSec
  /\ mpc' = "start"
  /\ UNCHANGED <<mkind, retries, num, started, sleepFrom, ended, hostOk, wthread>>

\* line 146: try_from_ascii_str(&host).expect("ASCII hostname") in the writer
\* thread; the host part of --addr is taken as it is (lines 59-72), and when
\* it is not a DNS name the expect panics and the thread is gone
WriterPanic ==
  /\ wthread = "running"
  /\ ~hostOk
  /\ mpc \in {"start", "session", "sleep", "join"}
  /\ wthread' = "panicked"
  /\ UNCHANGED <<mkind, retries, num, started, mpc, sleepFrom, ended, hostOk>>

\* line 200: thread.join().unwrap() returns only when the writer thread has
\* ended; the thread ends only by its panic, join then yields Err and the
\* unwrap panics main
JoinReturn ==
  /\ mpc = "join"
  /\ wthread = "panicked"
  /\ mpc' = "aborted"
  /\ UNCHANGED <<mkind, retries, num, started, sleepFrom, ended, hostOk, wthread>>

MainNext ==
  \/ Tick /\ UNCHANGED <<proxyVars, relayVars, restVars>>
  \/ StartSession /\ UNCHANGED <<proxyVars, relayVars, streamVars, listenVars, codecVars, lookupVars, macVars, linkVars>>
  \/ LoopExit /\ UNCHANGED <<proxyVars, relayVars, streamVars, listenVars, codecVars, lookupVars, macVars, linkVars>>
  \/ (\E o \in SessionOutcomes : SessionEnd(o)) /\ UNCHANGED <<proxyVars, relayVars, streamVars, listenVars, codecVars, lookupVars, macVars, linkVars>>
  \/ SleepDone /\ UNCHANGED <<proxyVars, relayVars, streamVars, listenVars, codecVars, lookupVars, macVars, linkVars>>
  \/ WriterPanic /\ UNCHANGED <<proxyVars, relayVars, streamVars, listenVars, codecVars, lookupVars, macVars, linkVars>>
  \/ JoinReturn /\ UNCHANGED <<proxyVars, relayVars, streamVars, listenVars, codecVars, lookupVars, macVars, linkVars>>

\* C12: with --retries N, for either destination kind, main never starts
\* more than N sessions, and it goes on starting a session each time the
\* previous one terminated until N have been started: when main has stopped
\* starting sessions, N of them have been started.
C12_RetryBudget ==
  /\ started <= retries
  /\ mpc \in {"join", "exit_err", "aborted"} => started = retries

\* C26: in the https branch the writer thread never ends, so once the
\* sessions of the retry budget are used up main stays blocked in
\* thread.join() and the process never terminates on its own.
C26_NeverExits == [][mpc = "join" => mpc' = "join"]_vars

(***************************************************************************)
(* The listener: main of src/bin/rtpproxy.rs, lines 96-110                 *)
(***************************************************************************)
Conns == 1..MaxConns

\* line 96: TcpListener::bind
ListenStart ==
  /\ cst = [c \in Conns |-> "none"]
  /\ backlog = <<>>
  /\ serving = 0
  /\ pend = [c \in Conns |-> 0]
  /\ closed = [c \in Conns |-> FALSE]
  /\ emitted = [c \in Conns |-> 0]
  /\ acceptErrs = 0

\* a peer connects: the kernel completes the handshake and queues the
\* connection, whatever main is doing
PeerConnect(c) ==
  /\ cst[c] = "none"
  /\ cst' = [cst EXCEPT ![c] = "backlog"]
  /\ backlog' = Append(backlog, c)
  /\ UNCHANGED <<serving, pend, closed, emitted, acceptErrs>>

\* a peer sends one more frame on its established connection
PeerSend(c) ==
  /\ cst[c] \in {"backlog", "serving"}
  /\ ~closed[c]
  /\ pend[c] + emitted[c] < MaxPending
  /\ pend' = [pend EXCEPT ![c] = @ + 1]
  /\ UNCHANGED <<cst, backlog, serving, closed, emitted, acceptErrs>>

\* a peer closes its end
PeerClose(c) ==
  /\ cst[c] \in {"backlog", "serving"}
  /\ ~closed[c]
  /\ closed' = [closed EXCEPT ![c] = TRUE]
  /\ UNCHANGED <<cst, backlog, serving, pend, emitted, acceptErrs>>

\* lines 99-102: incoming() yields Ok(stream) and main calls process(stream)
\* itself, in the loop that accepts
Accept ==
  /\ serving = 0
  /\ backlog # <<>>
  /\ serving' = Head(backlog)
  /\ backlog' = Tail(backlog)
  /\ cst' = [cst EXCEPT ![Head(backlog)] = "serving"]
  /\ UNCHANGED <<pend, closed, emitted, acceptErrs>>

\* lines 106-108: incoming() yields Err, which is logged
AcceptErr ==
  /\ serving = 0
  /\ acceptErrs < MaxAcceptErrs
  /\ acceptErrs' = acceptErrs + 1
  /\ UNCHANGED <<cst, backlog, serving, pend, closed, emitted>>

\* process() on the served connection reads a frame and re-emits it
ServeFrame ==
  /\ serving # 0
  /\ pend[serving] > 0
  /\ pend' = [pend EXCEPT ![serving] = @ - 1]
  /\ emitted' = [emitted EXCEPT ![serving] = @ + 1]
  /\ UNCHANGED <<cst, backlog, serving, closed, acceptErrs>>

\* process() returns Ok at the peer's close; main goes back to incoming()
ServeEof ==
  /\ serving # 0
  /\ pend[serving] = 0
  /\ closed[serving]
  /\ cst' = [cst EXCEPT ![serving] = "done_ok"]
  /\ serving' = 0
  /\ UNCHANGED <<backlog, pend, closed, emitted, acceptErrs>>

\* lines 102-104: process() returns Err (a read error, or a frame that is
\* not a binary string), which is logged; main goes back to incoming()
ServeFail ==
  /\ serving # 0
  /\ cst' = [cst EXCEPT ![serving] = "done_err"]
  /\ serving' = 0
  /\ UNCHANGED <<backlog, pend, closed, emitted, acceptErrs>>

ListenNext ==
  \/ (\E c \in Conns : PeerConnect(c)) /\ UNCHANGED <<proxyVars, relayVars, streamVars, mainVars, codecVars, lookupVars, macVars, linkVars>>
  \/ (\E c \in Conns : PeerSend(c)) /\ UNCHANGED <<proxyVars, relayVars, streamVars, mainVars, codecVars, lookupVars, macVars, linkVars>>
  \/ (\E c \in Conns : PeerClose(c)) /\ UNCHANGED <<proxyVars, relayVars, streamVars, mainVars, codecVars, lookupVars, macVars, linkVars>>
  \/ Accept /\ UNCHANGED <<proxyVars, relayVars, streamVars, mainVars, codecVars, lookupVars, macVars, linkVars>>
  \/ AcceptErr /\ UNCHANGED <<proxyVars, relayVars, streamVars, mainVars, codecVars, lookupVars, macVars, linkVars>>
  \/ ServeFrame /\ UNCHANGED <<proxyVars, relayVars, streamVars, mainVars, codecVars, lookupVars, macVars, linkVars>>
  \/ ServeEof /\ UNCHANGED <<proxyVars, relayVars, streamVars, mainVars, codecVars, lookupVars, macVars, linkVars>>
  \/ ServeFail /\ UNCHANGED <<proxyVars, relayVars, streamVars, mainVars, codecVars, lookupVars, macVars, linkVars>>

\* C15: connections are served independently of each other: whatever the
\* other connections are doing (open and idle, or failed), an established
\* connection can be taken up by the listener and have its frames decoded,
\* so whenever a connection is waiting the listener is able to accept it.
C15_ConnectionIndependence == backlog # <<>> => ENABLED Accept

(***************************************************************************)
(* ControlCodec: create_command, src/lib.rs lines 207-222                  *)
(***************************************************************************)
\* protocol.rs line 12
MAGIC == 19786

\* u16::to_be_bytes, write_u16::<BigEndian>
U16BE(x) == <<(x \div 256) % 256, x % 256>>

\* read_u16::<BigEndian> on two bytes
ReadU16BE(s) == s[1] * 256 + s[2]

Commands == {"Scan", "ScanReply", "StartRtp"}

\* lines 22-28: Command::as_u16 (0x1004, 0x100e, 0x1007)
AsU16(cmd) ==
  CASE cmd = "Scan" -> 4100
    [] cmd = "ScanReply" -> 4110
    [] cmd = "StartRtp" -> 4103

\* b"000000000000000"[..n]: n bytes of ASCII '0'
ZeroPad(n) == [i \in 1..n |-> 48]

\* mutation of CreateCommand: the cid is not cut to 15 bytes, so the length
\* of the padding slice underflows for a longer cid
CreateCommandNoTruncate(cmd, cid0, args) ==
  IF 15 - Len(cid0) < 0
  THEN [res |-> "panic", bytes |-> <<>>]
  ELSE [res |-> "ok",
        bytes |-> U16BE(MAGIC) \o U16BE(AsU16(cmd)) \o cid0
                  \o ZeroPad(15 - Len(cid0)) \o <<0>> \o args]

\* mutation of CreateCommand: the cid is cut to 16 bytes and fills the field
CreateCommandKeep16(cmd, cid0, args) ==
  LET cid == IF Len(cid0) > 16 THEN SubSeq(cid0, 1, 16) ELSE cid0 IN
    [res |-> "ok",
     bytes |-> U16BE(MAGIC) \o U16BE(AsU16(cmd)) \o cid \o ZeroPad(16 - Len(cid)) \o args]

\* lines 207-222: the cid cut to 15 bytes, then magic, opcode, cid, padding
\* of '0' up to 15 bytes, one nul, args; writes to a Vec do not fail
CreateCommand(cmd, cid0, args) ==
  LET cid == IF Len(cid0) > 15 THEN SubSeq(cid0, 1, 15) ELSE cid0 IN
    IF 15 - Len(cid) < 0
    THEN [res |-> "panic", bytes |-> <<>>]
    ELSE [res |-> "ok",
          bytes |-> U16BE(MAGIC) \o U16BE(AsU16(cmd)) \o cid
                    \o ZeroPad(15 - Len(cid)) \o <<0>> \o args]

\* the cids handed to create_command: every length up to MaxCid, made of
\* letters, or of digits with a final nul
CidOf(n, style) ==
  [i \in 1..n |-> IF style = 0 THEN 65 + (i % 26)
                  ELSE IF i = n THEN 0 ELSE 48 + (i % 10)]

Cids == {CidOf(n, style) : n \in 0..MaxCid, style \in {0, 1}}

\* u16 formatted with {}: decimal digits, no leading zero
RECURSIVE Decimal(_)
Decimal(n) == IF n < 10 THEN <<48 + n>> ELSE Append(Decimal(n \div 10), 48 + (n % 10))

\* lines 108, 150: the 38 bytes of '0'
ZeroArgs == [i \in 1..38 |-> 48]

\* lines 149-151: the arguments of StartRtp for the local port
StartArgs(port) == ZeroArgs \o Decimal(port) \o <<58>> \o Decimal(port) \o <<0>>

ArgsSet == {<<>>, ZeroArgs, StartArgs(7), StartArgs(40960)}

CodecStart(cmd, cid, args) ==
  /\ ccmd = cmd
  /\ ccid = cid
  /\ cargs = args
  /\ cout = [res |-> "none", bytes |-> <<>>]

CodecInit == \E cmd \in Commands, cid \in Cids, args \in ArgsSet : CodecStart(cmd, cid, args)

\* the call
Encode ==
  /\ cout.res = "none"
  /\ cout' = CreateCommand(ccmd, ccid, cargs)
  /\ UNCHANGED <<ccmd, ccid, cargs>>

CodecNext ==
  \/ Encode /\ UNCHANGED <<proxyVars, relayVars, streamVars, mainVars, listenVars, lookupVars, macVars, linkVars>>

\* C19: create_command is total and its result has the fixed layout: length
\* 4 + 16 + len(args); bytes 0..2 are 4d 4a; bytes 2..4 the opcode,
\* big-endian; bytes 4..20 the first min(len(cid), 15) bytes of the cid,
\* then '0' up to 15 bytes, then one nul; the rest is args unchanged.
C19_FixedLayout ==
  cout.res # "none" =>
    /\ cout.res = "ok"
    /\ LET out == cout.bytes
           n == Min(Len(ccid), 15)
       IN /\ Len(out) = 4 + 16 + Len(cargs)
          /\ out[1] = 77 /\ out[2] = 74
          /\ out[3] \in 0..255 /\ out[4] \in 0..255
          /\ out[3] * 256 + out[4] = AsU16(ccmd)
          /\ \A i \in 1..n : out[4 + i] = ccid[i]
          /\ \A i \in (n + 1)..15 : out[4 + i] = 48
          /\ out[20] = 0
          /\ SubSeq(out, 21, Len(out)) = cargs

\* a 17-byte cid was cut to 15 bytes in a command that carries arguments
C19_Witness ==
  /\ cout.res = "ok"
  /\ Len(ccid) = 17
  /\ Len(cargs) > 38
  /\ Len(cout.bytes) = 20 + Len(cargs)

(***************************************************************************)
(* Discovery: lookup(), src/lib.rs lines 104-143, and the session-start    *)
(* command of stream(), lines 145-154                                      *)
(***************************************************************************)
\* slice::split(|&ch| ch == b'\0'): the runs between the nul bytes (one more
\* run than there are nuls)
RECURSIVE SplitNul(_, _)
SplitNul(v, run) ==
  IF v = <<>> THEN <<run>>
  ELSE IF Head(v) = 0 THEN <<run>> \o SplitNul(Tail(v), <<>>)
  ELSE SplitNul(Tail(v), Append(run, Head(v)))

\* String::from_utf8 succeeds; the bytes of the model are ASCII or 255, and
\* 255 occurs in no well-formed UTF-8 sequence
IsUtf8(v) == \A i \in 1..Len(v) : v[i] < 128

\* lines 46-66: ScanInfo::try_from
ScanInfoTryFrom(v) ==
  LET it == SplitNul(v, <<>>) IN
    IF ~IsUtf8(it[1])
    THEN [res |-> "err", why |-> "invalid utf-8", mac |-> <<>>, version |-> <<>>]
    ELSE IF Len(it) < 2
    THEN [res |-> "err", why |-> "missing version", mac |-> <<>>, version |-> <<>>]
    ELSE IF ~IsUtf8(it[2])
    THEN [res |-> "err", why |-> "invalid utf-8", mac |-> <<>>, version |-> <<>>]
    ELSE [res |-> "ok", why |-> "", mac |-> it[1], version |-> it[2]]

NoHandle == [addr |-> "none", cid |-> <<>>, mac |-> <<>>, version |-> <<>>]

\* mutation of AfterBadMagic: the datagram is skipped
AfterBadMagicContinue == "continue"

\* lines 121-123: return Err("invalid magic header")
AfterBadMagic == "err"

\* lines 116-141: one pass of the loop body over the received bytes v (the
\* Cursor over buf[..size]) from addr: "ok" with the handle, "continue", or
\* "err" with the error that `?` or the return hands to the caller
LookupBody(v, addr) ==
  IF Len(v) < 2
  THEN [res |-> "err", why |-> "failed to fill whole buffer", handle |-> NoHandle]
  ELSE IF SubSeq(v, 1, 2) # U16BE(MAGIC)
  THEN [res |-> AfterBadMagic, why |-> "invalid magic header", handle |-> NoHandle]
  ELSE IF Len(v) < 4
  THEN [res |-> "err", why |-> "failed to fill whole buffer", handle |-> NoHandle]
  ELSE IF ReadU16BE(SubSeq(v, 3, 4)) # AsU16("ScanReply")
  THEN [res |-> "continue", why |-> "", handle |-> NoHandle]
  ELSE IF Len(v) < 20
  THEN [res |-> "err", why |-> "failed to fill whole buffer", handle |-> NoHandle]
  ELSE LET info == ScanInfoTryFrom(SubSeq(v, 21, Len(v))) IN
         IF info.res = "err"
         THEN [res |-> "err", why |-> info.why, handle |-> NoHandle]
         ELSE [res |-> "ok", why |-> "",
               handle |-> [addr |-> addr, cid |-> SubSeq(v, 5, 20),
                           mac |-> info.mac, version |-> info.version]]

\* a camera id of 15 letters and a nul; one of 16 letters
CidNul == CidOf(16, 1)

CidFull == CidOf(16, 0)

\* a datagram with the layout of a reply
MkReply(magic, opcode, cid, tail) == magic \o U16BE(opcode) \o cid \o tail

\* the datagrams the discovery socket may deliver
LookupDgrams ==
  { MkReply(<<77, 74>>, 4110, CidNul, <<97, 0, 49, 0>>),   \* a valid reply
    MkReply(<<77, 74>>, 4110, CidFull, <<98, 0, 50, 0>>),  \* valid, 16th cid byte not nul
    MkReply(<<77, 74>>, 4100, CidNul, <<97, 0, 49, 0>>),   \* another opcode
    MkReply(<<77, 75>>, 4110, CidNul, <<97, 0, 49, 0>>),   \* wrong magic
    <<>>,                                                  \* empty
    <<77>>,                                                \* one byte
    <<77, 74, 16>>,                                        \* opcode cut
    MkReply(<<77, 74>>, 4110, <<65, 66, 67>>, <<>>),       \* cid cut
    MkReply(<<77, 74>>, 4110, CidNul, <<97>>),             \* no version field
    MkReply(<<77, 74>>, 4110, CidNul, <<255, 0, 49, 0>>) } \* MAC not UTF-8

\* local ports of the session socket
Ports == {7, 40960}

\* lines 105-111: the socket is bound, the scan command sent, the buffer
\* zeroed
LookupStart ==
  /\ lstate = "waiting"
  /\ lerr = ""
  /\ handle = NoHandle
  /\ lrecv = 0
  /\ lastRx = [d |-> <<>>, addr |-> "none"]
  /\ lbuf = [i \in 1..LBufLen |-> 0]
  /\ startCmd = <<>>

\* lines 114-141: recv_from returns a datagram and the loop body runs on it
LookupRecv(d, addr) ==
  /\ lstate = "waiting"
  /\ lrecv < MaxLookupDgrams
  /\ Len(d) <= LBufLen
  /\ lrecv' = lrecv + 1
  /\ lastRx' = [d |-> d, addr |-> addr]
  /\ LET size == Len(d)
         b1 == [i \in 1..LBufLen |-> IF i <= size THEN d[i] ELSE lbuf[i]]
         r == LookupBody(SubSeq(b1, 1, size), addr)
     IN /\ lbuf' = b1
        /\ lstate' = IF r.res = "continue" THEN "waiting" ELSE r.res
        /\ lerr' = r.why
        /\ handle' = r.handle
  /\ UNCHANGED startCmd

\* line 114: recv_from fails and `?` returns the error
LookupRecvErr ==
  /\ lstate = "waiting"
  /\ lstate' = "err"
  /\ lerr' = "io"
  /\ UNCHANGED <<handle, lrecv, lastRx, lbuf, startCmd>>

\* lines 146-154: stream() builds the StartRtp command for the cid of the
\* handle and sends it to the camera
SessionStart(port) ==
  /\ lstate = "ok"
  /\ startCmd = <<>>
  /\ startCmd' = CreateCommand("StartRtp", handle.cid, StartArgs(port)).bytes
  /\ UNCHANGED <<lstate, lerr, handle, lrecv, lastRx, lbuf>>

LookupNext ==
  \/ Tick /\ UNCHANGED <<proxyVars, relayVars, restVars>>
  \/ (\E d \in LookupDgrams, addr \in Addrs : LookupRecv(d, addr))
       /\ UNCHANGED <<proxyVars, relayVars, streamVars, mainVars, listenVars, codecVars, macVars, linkVars>>
  \/ LookupRecvErr /\ UNCHANGED <<proxyVars, relayVars, streamVars, mainVars, listenVars, codecVars, macVars, linkVars>>
  \/ (\E port \in Ports : SessionStart(port))
       /\ UNCHANGED <<proxyVars, relayVars, streamVars, mainVars, listenVars, codecVars, macVars, linkVars>>

(***************************************************************************)
(* Discovery claims                                                        *)
(***************************************************************************)
\* a step of lookup() that received a datagram
LookupReceived == lrecv' = lrecv + 1

\* the leading two bytes are there and are not 4d 4a
MagicMismatch(d) == Len(d) >= 2 /\ SubSeq(d, 1, 2) # <<77, 74>>

\* C16: lookup does not wait forever: for any timeout within the explored
\* time, once more than the timeout has elapsed, lookup is no longer
\* blocked in its receive.
C16_BoundedByTimeout ==
  \E timeout \in 0..(MaxTime - 1) : now > timeout => lstate # "waiting"

\* C17: a received datagram that is not a valid scan reply because its
\* opcode is another one or because it does not decode (too short, cid cut,
\* bad identity fields) is ignored: lookup goes on receiving.
C17_Tolerance ==
  [][(LookupReceived
        /\ ~MagicMismatch(lastRx'.d)
        /\ LookupBody(lastRx'.d, lastRx'.addr).res # "ok")
     => lstate' = "waiting"]_vars

\* C18: a received datagram whose leading 2 bytes are not 4d 4a ends
\* lookup at once with the error "invalid magic header" and no handle; a
\* handle is returned only for a datagram with the magic 4d 4a and the
\* opcode 0x100e, and its endpoint and cid are the source address and bytes
\* 4..20 of that same datagram.
C18_MagicFatal ==
  [][LookupReceived =>
       LET d == lastRx'.d IN
         /\ MagicMismatch(d) =>
              lstate' = "err" /\ lerr' = "invalid magic header" /\ handle' = NoHandle
         /\ lstate' = "ok" =>
              /\ Len(d) >= 20
              /\ d[1] = 77 /\ d[2] = 74
              /\ d[3] * 256 + d[4] = 4110
              /\ handle'.addr = lastRx'.addr
              /\ handle'.cid = SubSeq(d, 5, 20)
         /\ lstate' # "ok" => handle' = NoHandle]_vars

\* lookup skipped a datagram with another opcode and then ended on one with
\* the wrong magic
C18_Witness ==
  /\ lrecv = 2
  /\ lstate = "err"
  /\ lerr = "invalid magic header"
  /\ MagicMismatch(lastRx.d)
  /\ handle = NoHandle

\* C20 as stated: the cid field of the StartRtp command equals the 16-byte
\* cid of the handle byte for byte.
C20_CidEchoed ==
  startCmd # <<>> => SubSeq(startCmd, 5, 20) = handle.cid

\* C20 as amended: the command has the opcode 0x1007 and its cid field is
\* the first 15 bytes of the handle's cid followed by a nul, so it equals
\* the cid byte for byte exactly when the 16th byte of the cid is a nul.
C20_CidEchoedTo15 ==
  startCmd # <<>> =>
    /\ startCmd[3] * 256 + startCmd[4] = 4103
    /\ Len(handle.cid) = 16
    /\ SubSeq(startCmd, 5, 19) = SubSeq(handle.cid, 1, 15)
    /\ startCmd[20] = 0
    /\ (SubSeq(startCmd, 5, 20) = handle.cid) <=> (handle.cid[16] = 0)

\* a session was started for a cid whose 16th byte is not a nul
C20_Witness ==
  /\ startCmd # <<>>
  /\ handle.cid[16] # 0
  /\ SubSeq(startCmd, 5, 20) # handle.cid

(***************************************************************************)
(* MacAddr: from_str and the LowerHex / Display formatting, src/mac.rs     *)
(***************************************************************************)
HexDigits == <<"0", "1", "2", "3", "4", "5", "6", "7", "8", "9",
               "a", "b", "c", "d", "e", "f">>

UpperDigits == <<"A", "B", "C", "D", "E", "F">>

\* char::to_digit(16): the value of a hex digit of either case, -1 otherwise
ToDigit(ch) ==
  IF \E i \in 1..16 : HexDigits[i] = ch
  THEN (CHOOSE i \in 1..16 : HexDigits[i] = ch) - 1
  ELSE IF \E i \in 1..6 : UpperDigits[i] = ch
  THEN (CHOOSE i \in 1..6 : UpperDigits[i] = ch) + 9
  ELSE -1

\* the digits of v in base 16, lower case, without padding
RECURSIVE HexOf(_)
HexOf(v) ==
  IF v < 16 THEN <<HexDigits[v + 1]>> ELSE Append(HexOf(v \div 16), HexDigits[(v % 16) + 1])

\* mutation of LowerHex02: the '<' alignment is honoured, zeros go after the
\* digits
LowerHex02Left(v) ==
  LET ds == HexOf(v) IN ds \o [i \in 1..(2 - Len(ds)) |-> "0"]

\* lines 100, 103: {:<02x}.  With the 0 flag the padding is made of zeros
\* placed before the digits, whatever the alignment says
LowerHex02(v) ==
  LET ds == HexOf(v) IN [i \in 1..(2 - Len(ds)) |-> "0"] \o ds

\* lines 98-108: LowerHex::fmt, which Display::fmt (lines 92-96) calls
RECURSIVE MacFmt(_)
MacFmt(m) ==
  IF Len(m) = 1 THEN LowerHex02(m[1])
  ELSE MacFmt(SubSeq(m, 1, Len(m) - 1)) \o <<":">> \o LowerHex02(m[Len(m)])

\* str::split(':'): the runs between the colons
RECURSIVE SplitColon(_, _)
SplitColon(v, run) ==
  IF v = <<>> THEN <<run>>
  ELSE IF Head(v) = ":" THEN <<run>> \o SplitColon(Tail(v), <<>>)
  ELSE SplitColon(Tail(v), Append(run, Head(v)))

\* the value of a run of hex digits, -1 if one of them is not a digit or
\* the value leaves u8
RECURSIVE DigitsValue(_, _)
DigitsValue(ds, acc) ==
  IF ds = <<>> THEN acc
  ELSE IF ToDigit(Head(ds)) < 0 THEN -1
  ELSE IF acc * 16 + ToDigit(Head(ds)) > 255 THEN -1
  ELSE DigitsValue(Tail(ds), acc * 16 + ToDigit(Head(ds)))

\* line 80: u8::from_str_radix(b, 16): an optional '+', then at least one
\* digit; -1 stands for the ParseIntError
FromStrRadix16(b) ==
  LET ds == IF b # <<>> /\ Head(b) = "+" THEN Tail(b) ELSE b IN
    IF ds = <<>> THEN -1 ELSE DigitsValue(ds, 0)

\* lines 75-82: the loop over the components, from component idx + 1 on
RECURSIVE FromStrLoop(_, _, _)
FromStrLoop(comps, idx, acc) ==
  IF idx = Len(comps) THEN [res |-> "done", bytes |-> acc]
  ELSE IF idx = 6 THEN [res |-> "InvalidLength", bytes |-> <<>>]
  ELSE IF FromStrRadix16(comps[idx + 1]) < 0 THEN [res |-> "InvalidDigit", bytes |-> <<>>]
  ELSE FromStrLoop(comps, idx + 1, Append(acc, FromStrRadix16(comps[idx + 1])))

\* lines 71-89: MacAddr::from_str
MacFromStr(str) ==
  LET r == FromStrLoop(SplitColon(str, <<>>), 0, <<>>) IN
    IF r.res # "done" THEN r
    ELSE IF Len(r.bytes) # 6 THEN [res |-> "InvalidLength", bytes |-> <<>>]
    ELSE [res |-> "ok", bytes |-> r.bytes]

\* the octets of the addresses formatted
MacBytes == {0, 4, 160, 255}

Macs == [1..6 -> MacBytes]

\* the components of the strings parsed: one digit, two digits, not a digit,
\* empty
Comps == {<<"a">>, <<"0", "F">>, <<"g">>, <<>>}

RECURSIVE Join(_)
Join(cs) == IF Len(cs) = 1 THEN cs[1] ELSE cs[1] \o <<":">> \o Join(Tail(cs))

MacStrings == {Join(cs) : cs \in UNION {[1..n -> Comps] : n \in 1..MaxComps}}

MacStart(m, str) ==
  /\ mmac = m
  /\ mstr = str
  /\ mres = [res |-> "none", bytes |-> <<>>]

MacInit ==
  \/ \E m \in Macs : MacStart(m, <<"?">>)
  \/ \E str \in MacStrings : MacStart(<<>>, str)

\* format!("{}", mac)
MacDisplay ==
  /\ mmac # <<>>
  /\ mstr = <<"?">>
  /\ mstr' = MacFmt(mmac)
  /\ UNCHANGED <<mmac, mres>>

\* str.parse::<MacAddr>()
MacParse ==
  /\ mstr # <<"?">>
  /\ mres.res = "none"
  /\ mres' = MacFromStr(mstr)
  /\ UNCHANGED <<mmac, mstr>>

MacNext ==
  \/ MacDisplay /\ UNCHANGED <<proxyVars, relayVars, streamVars, mainVars, listenVars, codecVars, lookupVars, linkVars>>
  \/ MacParse /\ UNCHANGED <<proxyVars, relayVars, streamVars, mainVars, listenVars, codecVars, lookupVars, linkVars>>

(***************************************************************************)
(* MacAddr claims                                                          *)
(***************************************************************************)
\* the string is made of two hex digits per octet, lower case
TwoDigitsPerOctet(str) ==
  LET cs == SplitColon(str, <<>>) IN
    \A i \in 1..Len(cs) :
      Len(cs[i]) = 2 /\ \A j \in 1..2 : \E k \in 1..16 : HexDigits[k] = cs[i][j]

\* the part of C21 that both statements share: the Display form of a MAC
\* has six components of two lower-case hex digits and parses back to the
\* same 6 bytes; and parsing succeeds only for strings of exactly 6
\* components, each a hex octet.
MacRoundTrip ==
  /\ (mmac # <<>> /\ mstr # <<"?">>) =>
       Len(SplitColon(mstr, <<>>)) = 6 /\ TwoDigitsPerOctet(mstr)
  /\ (mmac # <<>> /\ mres.res # "none") => mres = [res |-> "ok", bytes |-> mmac]
  /\ mres.res = "ok" =>
       LET cs == SplitColon(mstr, <<>>) IN
         /\ Len(cs) = 6
         /\ \A i \in 1..6 : FromStrRadix16(cs[i]) = mres.bytes[i] /\ mres.bytes[i] \in 0..255

\* C21 as stated: the round trip, and a string with fewer or more than 6
\* components is rejected with InvalidLength.
C21_MacRoundTrip ==
  /\ MacRoundTrip
  /\ (mres.res # "none" /\ Len(SplitColon(mstr, <<>>)) # 6) => mres.res = "InvalidLength"

\* C21 as amended: the round trip, and a string with fewer or more than 6
\* components is rejected: with InvalidLength when each of its first 6
\* components (all of them if fewer) is a hex octet, with InvalidDigit when
\* one of those is not.
C21_MacRoundTripDigitsFirst ==
  /\ MacRoundTrip
  /\ (mres.res # "none" /\ Len(SplitColon(mstr, <<>>)) # 6) =>
       LET cs == SplitColon(mstr, <<>>)
           n == Min(Len(cs), 6)
       IN IF \A i \in 1..n : FromStrRadix16(cs[i]) >= 0
          THEN mres.res = "InvalidLength"
          ELSE mres.res = "InvalidDigit"

\* an address with an octet below 16 was formatted and parsed back
C21_Witness ==
  /\ mmac # <<>>
  /\ \E i \in 1..6 : mmac[i] = 4
  /\ mres = [res |-> "ok", bytes |-> mmac]

(***************************************************************************)
(* Relay sink claim                                                        *)
(***************************************************************************)
\* C25: the sink returns Ok on every invocation, whatever became of the
\* payload (queued, queue full, channel disconnected); once the writer thread
\* has exited every further invocation drops its payload, leaves the queue and
\* the transport untouched and still returns Ok, and the session can go on
\* invoking the sink.
C25_SinkNeverFails ==
  /\ [](lastSink.ret = "Ok")
  /\ []((wpc = "exited" /\ nextId < MaxSink) => ENABLED OnData)
  /\ [][(wpc = "exited" /\ nextId' # nextId) =>
          /\ nextId' \in dropped'
          /\ lastSink'.outcome = "disconnected"
          /\ lastSink'.ret = "Ok"
          /\ queue' = queue
          /\ wire' = wire
          /\ wpc' = "exited"]_vars

\* two payloads in a row were handed to the sink after the writer thread had
\* exited; both were dropped and the sink returned Ok
C25_Witness ==
  /\ wpc = "exited"
  /\ lastSink.outcome = "disconnected"
  /\ lastSink.ret = "Ok"
  /\ {lastSink.id - 1, lastSink.id} \subseteq dropped
  /\ lastSink.id >= 2

(***************************************************************************)
(* The relay writer of examples/cleverdog.rs feeding process() of          *)
(* src/bin/rtpproxy.rs over its successive connections                     *)
(***************************************************************************)
\* the datagram of sink invocation id: two bytes, which for the first ids
\* are also envelope markers
PayloadOfId(id) == <<195 + id, 195 + id>>

\* cleverdog.rs 179-180: write_value_ref(&mut msg, &ValueRef::Binary(buf))
Envelope(id) == EncodeBin(PayloadOfId(id))

LinkStart ==
  /\ pconn = 0
  /\ taken = 0

\* rtpproxy.rs 96-99: the listener is bound, no connection accepted yet
ProxyListening ==
  /\ frames = <<>>
  /\ tcp = <<>>
  /\ buf = [i \in 1..BufSize |-> 0]
  /\ rx_offset = 0
  /\ rd_offset = 0
  /\ sent = <<>>
  /\ bytewise = TRUE
  /\ lastCopy = NoCopy
  /\ pstate = "accept"

\* mutation of ProcessEntry: the buffer and the write offset of the previous
\* connection are kept
ProcessEntryKeep(b, rd) == [buf |-> b, rd |-> rd]

\* rtpproxy.rs 21-23: every call of process() starts with offsets 0 and a
\* zeroed buffer of its own
ProcessEntry(b, rd) == [buf |-> [i \in 1..BufSize |-> 0], rd |-> 0]

\* number of entries of wire written on connections before c
WrittenBefore(c) == Cardinality({i \in 1..Len(wire) : wire[i].conn < c})

\* rtpproxy.rs 99-102: process() has returned (or was never called) and the
\* writer's next connection is accepted; what was still in flight on older
\* connections is lost
LinkAccept ==
  /\ pstate \in {"accept", "eof", "ioerr", "unexpected"}
  /\ pconn < conn
  /\ pconn' = pconn + 1
  /\ taken' = WrittenBefore(pconn + 1)
  /\ LET e == ProcessEntry(buf, rd_offset)
     IN /\ buf' = e.buf
        /\ rd_offset' = e.rd
  /\ rx_offset' = 0
  /\ tcp' = <<>>
  /\ lastCopy' = NoCopy
  /\ pstate' = "reading"
  /\ UNCHANGED <<frames, sent, bytewise>>

\* the next entry the writer put on the served connection reaches the
\* proxy's socket: the whole envelope, or the first n bytes of it when the
\* write was cut
Arrive(n) ==
  /\ pstate = "reading"
  /\ taken < Len(wire)
  /\ wire[taken + 1].conn = pconn
  /\ LET e == Envelope(wire[taken + 1].id)
     IN /\ n \in 1..Len(e)
        /\ wire[taken + 1].whole <=> n = Len(e)
        /\ tcp' = tcp \o SubSeq(e, 1, n)
  /\ taken' = taken + 1
  /\ UNCHANGED <<frames, buf, rx_offset, rd_offset, sent, bytewise, lastCopy, pstate, pconn>>

\* the writer has dropped the served connection (cleverdog.rs 172-173, the
\* end of the loop body) and everything written on it has arrived
PeerClosed ==
  /\ conn > pconn \/ wpc \in {"connect", "backoff", "exited"}
  /\ taken = WrittenBefore(pconn + 1)

LinkNext ==
  \/ OnData /\ UNCHANGED <<proxyVars, streamVars, restVars>>
  \/ (\E ok \in BOOLEAN : Connect(ok)) /\ UNCHANGED <<proxyVars, streamVars, restVars>>
  \/ BackoffDone /\ UNCHANGED <<proxyVars, streamVars, restVars>>
  \/ Recv /\ UNCHANGED <<proxyVars, streamVars, restVars>>
  \/ (\E k \in 0..BufWriterCap, some \in BOOLEAN : WriteBuffered(k, some))
       /\ UNCHANGED <<proxyVars, streamVars, restVars>>
  \/ Wake /\ UNCHANGED <<proxyVars, streamVars, restVars>>
  \/ LinkAccept /\ UNCHANGED <<relayVars, streamVars, mainVars, listenVars, codecVars, lookupVars, macVars>>
  \/ (\E n \in 1..BufSize : Arrive(n))
       /\ UNCHANGED <<relayVars, streamVars, mainVars, listenVars, codecVars, lookupVars, macVars>>
  \/ (\E nread \in 1..BufSize : ProcessRead(nread)) /\ UNCHANGED <<relayVars, streamVars, restVars>>
  \/ (PeerClosed /\ ProcessReadZero) /\ UNCHANGED <<relayVars, streamVars, restVars>>
  \/ ProcessReadErr /\ UNCHANGED <<relayVars, streamVars, restVars>>

(***************************************************************************)
(* End-to-end claim                                                        *)
(***************************************************************************)
\* the sink invocation a datagram emitted by the proxy comes from, 0 if it is
\* the payload of none
IdOfPayload(p) ==
  IF \E id \in 1..nextId : PayloadOfId(id) = p
  THEN CHOOSE id \in 1..nextId : PayloadOfId(id) = p
  ELSE 0

\* C24: the datagrams the proxy emits are payloads that were passed to the
\* relay sink, each whole and unaltered, in the order of the sink
\* invocations and none twice; each was written whole by the writer and was
\* not dropped by the sink.
C24_EndToEnd ==
  /\ \A i \in 1..Len(sent) :
       /\ IdOfPayload(sent[i]) # 0
       /\ IdOfPayload(sent[i]) \notin dropped
       /\ \E j \in 1..Len(wire) : wire[j].id = IdOfPayload(sent[i]) /\ wire[j].whole
  /\ \A i, j \in 1..Len(sent) : i < j => IdOfPayload(sent[i]) < IdOfPayload(sent[j])

\* the proxy emitted a payload from the writer's first connection, discarded
\* the truncated envelope that ended it, and emitted a payload from a later
\* connection
C24_Witness ==
  /\ pconn >= 2
  /\ variant = "cleverdog_rs"
  /\ \E k \in 1..Len(wire) : ~wire[k].whole /\ wire[k].conn = 1 /\ k <= taken
  /\ \E i, j \in 1..Len(wire) :
       /\ wire[i].conn = 1 /\ wire[j].conn >= 2
       /\ PayloadOfId(wire[i].id) \in Range(sent)
       /\ PayloadOfId(wire[j].id) \in Range(sent)

(***************************************************************************)
(* Specifications                                                          *)
(***************************************************************************)
\* the components outside the one a specification runs, in their start state
RestStart ==
  MainStart("https", 0, TRUE) /\ ListenStart /\ CodecStart("Scan", <<>>, <<>>) /\ LookupStart
  /\ MacStart(<<>>, <<"a">>) /\ LinkStart

InitProxy == ProxyInit /\ RelayStart("cleverdog_rs") /\ StreamStart /\ RestStart

SpecProxy == InitProxy /\ [][ProxyNext]_vars

InitRelay == ProxyStart(<<>>) /\ RelayInit /\ StreamStart /\ RestStart

SpecRelay == InitRelay /\ [][RelayNext]_vars

InitStream == ProxyStart(<<>>) /\ RelayStart("cleverdog_rs") /\ StreamStart /\ RestStart

SpecStream == InitStream /\ [][StreamNext]_vars

InitMain ==
  /\ ProxyStart(<<>>) /\ RelayStart("cleverdog_rs") /\ StreamStart
  /\ MainInit /\ ListenStart /\ CodecStart("Scan", <<>>, <<>>) /\ LookupStart /\ MacStart(<<>>, <<"a">>) /\ LinkStart

SpecMain == InitMain /\ [][MainNext]_vars

InitListen == ProxyStart(<<>>) /\ RelayStart("cleverdog_rs") /\ StreamStart /\ RestStart

SpecListen == InitListen /\ [][ListenNext]_vars

InitCodec ==
  /\ ProxyStart(<<>>) /\ RelayStart("cleverdog_rs") /\ StreamStart
  /\ MainStart("https", 0, TRUE) /\ ListenStart /\ CodecInit /\ LookupStart /\ MacStart(<<>>, <<"a">>) /\ LinkStart

SpecCodec == InitCodec /\ [][CodecNext]_vars

InitLookup == ProxyStart(<<>>) /\ RelayStart("cleverdog_rs") /\ StreamStart /\ RestStart

SpecLookup == InitLookup /\ [][LookupNext]_vars

InitMac ==
  /\ ProxyStart(<<>>) /\ RelayStart("cleverdog_rs") /\ StreamStart
  /\ MainStart("https", 0, TRUE) /\ ListenStart /\ CodecStart("Scan", <<>>, <<>>) /\ LookupStart
  /\ MacInit /\ LinkStart

SpecMac == InitMac /\ [][MacNext]_vars

InitLink == ProxyListening /\ RelayStart("cleverdog_rs") /\ StreamStart /\ RestStart

SpecLink == InitLink /\ [][LinkNext]_vars

====
